---------------------------- MODULE Spec2Model ----------------------------
(***************************************************************************)
(* Model of lux-cli's apply_build_behaviour (src/lux-cli/src/utils/        *)
(* install.rs): one call that turns a list of package requirements into a  *)
(* list of install specifications, consulting the installation tree, the   *)
(* lockfile and an interactive confirmation prompt.                        *)
(*                                                                         *)
(* One behaviour of the model is one call.  The arguments and the tree are *)
(* chosen in Init; the steps of the call are the actions.  The outcomes of *)
(* the collaborators (lockfile read, tree query, prompt) are chosen by the *)
(* environment when the call reaches them.                                 *)
(***************************************************************************)
EXTENDS Integers, Sequences, FiniteSets, TLC

\* ------------------------------------------------------------------ bounds
MaxReqs == 3        \* longest requirement list passed to the call
MaxVersion == 2     \* installed versions per package name and pin state
MaxInstalled == 2   \* most packages installed in the tree

\* ---------------------------------------------------------------- domains
Names == {"a", "b"}
PinnedState == {"Pinned", "Unpinned"}
Versions == 1..MaxVersion

\* LocalPackageId: an opaque identity of an installed package.  The model
\* keeps the attributes the tree query looks at.
LocalPackageId == [name : Names, version : Versions, pin : PinnedState]

\* PackageReq: the requirement, identified by the package name it asks for.
PackageReq == Names

RECURSIVE SeqsUpTo(_, _)
SeqsUpTo(S, n) ==
    IF n = 0 THEN {<< >>}
    ELSE LET shorter == SeqsUpTo(S, n - 1)
         IN  shorter \cup {Append(s, x) : s \in {t \in shorter : Len(t) = n - 1}, x \in S}

VARIABLES
    installed,      \* tree: the set of installed LocalPackageIds
    entrypoints,    \* tree's lockfile on disk: the installed ids that are entrypoints
    package_reqs,   \* argument: Vec<PackageReq>
    pin,            \* argument: PinnedState
    force,          \* argument: bool
    lockfile,       \* local `lockfile`: [loaded, entrypoints]
    lockfileReads,  \* calls of tree.lockfile() made so far
    pc,             \* position of the call: "lockfile", "iter", "prompt", "done"
    i,              \* 1-based index of the requirement the iterator is at
    out,            \* the Vec being collected
    result,         \* what the caller gets: [kind, specs, error]
    queryLog,       \* calls of tree.match_rocks_and made so far: [idx, ok]
    promptLog       \* calls of Confirm::prompt made so far: [idx, answer]

vars == <<installed, entrypoints, package_reqs, pin, force, lockfile,
          lockfileReads, pc, i, out, result, queryLog, promptLog>>

tree == <<installed, entrypoints>>
args == <<package_reqs, pin, force>>
loaded == <<lockfile, lockfileReads>>

\* ------------------------------------------------- collaborators (lux_lib)
\* LocalPackage::pinned()
pinned(rock) == rock.pin

\* Tree::match_rocks_and(req, filter): the installed identities that satisfy
\* the requirement and the filter, as NotFound / Single / Many.
match_rocks_and(req, filter) ==
    LET ids == {rock \in installed : rock.name = req /\ filter[rock]}
    IN  IF ids = {} THEN [tag |-> "NotFound", ids |-> {}]
        ELSE IF Cardinality(ids) = 1 THEN [tag |-> "Single", ids |-> ids]
        ELSE [tag |-> "Many", ids |-> ids]

\* Lockfile::is_entrypoint(id)
is_entrypoint(pkg_id) == pkg_id \in lockfile.entrypoints

\* BuildBehaviour::from(bool)
BuildBehaviourFrom(b) == IF b THEN "Force" ELSE "NoForce"

\* -------------------------------------------------- apply_build_behaviour
\* The filter closure handed to match_rocks_and: |rock| pin == rock.pinned()
PinFilter_Any == [rock \in LocalPackageId |-> TRUE]

PinFilter == [rock \in LocalPackageId |-> pin = pinned(rock)]

\* existing_packages: the match result flattened to the matched ids.
existing_packages(req) ==
    LET m == match_rocks_and(req, PinFilter)
    IN  CASE m.tag = "Single" -> m.ids
          [] m.tag = "Many" -> m.ids
          [] OTHER -> {}

\* The shadowing `force`: the caller's flag, or no matched id is an entrypoint.
EffectiveForce_CallerOnly(existing) == force

EffectiveForce_IgnoreFlag(existing) == \A pkg_id \in existing : ~is_entrypoint(pkg_id)

EffectiveForce_Any(existing) ==
    force \/ existing = {} \/ \E pkg_id \in existing : ~is_entrypoint(pkg_id)

EffectiveForce(existing) ==
    force \/ \A pkg_id \in existing : ~is_entrypoint(pkg_id)

\* PackageInstallSpec::new(req, Entrypoint).build_behaviour(b).pin(pin)
\*     .opt(Required).build()
PackageInstallSpec(req, build_behaviour) ==
    [req |-> req, build_behaviour |-> build_behaviour, pin |-> pin,
     opt |-> "Required", entry_type |-> "Entrypoint"]

\* filter_map(..).collect(): a produced specification is appended.
Collected_Front(acc, spec) == <<spec>> \o acc

Collected(acc, spec) == Append(acc, spec)

NoResult == [kind |-> "Pending", specs |-> << >>, error |-> "none"]

Init ==
    /\ installed \in {s \in SUBSET LocalPackageId : Cardinality(s) <= MaxInstalled}
    /\ entrypoints \in SUBSET installed
    /\ package_reqs \in SeqsUpTo(PackageReq, MaxReqs)
    /\ pin \in PinnedState
    /\ force \in BOOLEAN
    /\ lockfile = [loaded |-> FALSE, entrypoints |-> {}]
    /\ lockfileReads = 0
    /\ pc = "lockfile"
    /\ i = 1
    /\ out = << >>
    /\ result = NoResult
    /\ queryLog = << >>
    /\ promptLog = << >>

\* let lockfile = tree.lockfile()?;   -- the read succeeds
LockfileOk ==
    /\ pc = "lockfile"
    /\ lockfile' = [loaded |-> TRUE, entrypoints |-> entrypoints]
    /\ lockfileReads' = lockfileReads + 1
    /\ pc' = "iter"
    /\ UNCHANGED <<tree, args, i, out, result, queryLog, promptLog>>

\* let lockfile = tree.lockfile()?;   -- the read fails: `?` returns the error
LockfileError_SkipWhenEmpty ==
    /\ pc = "lockfile"
    /\ pc' = "done"
    /\ result' = IF package_reqs = << >>
                 THEN [kind |-> "Ok", specs |-> << >>, error |-> "none"]
                 ELSE [kind |-> "Err", specs |-> << >>, error |-> "StoreError"]
    /\ lockfileReads' = IF package_reqs = << >> THEN 0 ELSE 1
    /\ UNCHANGED <<tree, args, lockfile, i, out, queryLog, promptLog>>

LockfileError ==
    /\ pc = "lockfile"
    /\ pc' = "done"
    /\ result' = [kind |-> "Err", specs |-> << >>, error |-> "StoreError"]
    /\ lockfileReads' = lockfileReads + 1
    /\ UNCHANGED <<tree, args, lockfile, i, out, queryLog, promptLog>>

\* match_rocks_and(..).expect("unable to get tree data") on an Err: panic.
MatchError_AsNoMatch ==
    /\ pc = "iter"
    /\ i <= Len(package_reqs)
    /\ queryLog' = Append(queryLog, [idx |-> i, ok |-> FALSE])
    /\ out' = Collected(out, PackageInstallSpec(package_reqs[i],
                                BuildBehaviourFrom(EffectiveForce({}))))
    /\ i' = i + 1
    /\ UNCHANGED <<tree, args, loaded, pc, result, promptLog>>

MatchError ==
    /\ pc = "iter"
    /\ i <= Len(package_reqs)
    /\ queryLog' = Append(queryLog, [idx |-> i, ok |-> FALSE])
    /\ pc' = "done"
    /\ result' = [kind |-> "Panic", specs |-> << >>,
                  error |-> "unable to get tree data"]
    /\ UNCHANGED <<tree, args, loaded, i, out, promptLog>>

\* The closure body for the next requirement, up to the prompt: query the
\* tree, compute force, and either produce the specification or ask.
NextReq ==
    /\ pc = "iter"
    /\ i <= Len(package_reqs)
    /\ queryLog' = Append(queryLog, [idx |-> i, ok |-> TRUE])
    /\ LET req == package_reqs[i]
           existing == existing_packages(req)
           f == EffectiveForce(existing)
       IN  IF f \/ existing = {}
           THEN /\ out' = Collected(out, PackageInstallSpec(req, BuildBehaviourFrom(f)))
                /\ i' = i + 1
                /\ UNCHANGED <<pc, promptLog>>
           ELSE /\ promptLog' = Append(promptLog, [idx |-> i, answer |-> "Pending"])
                /\ pc' = "prompt"
                /\ UNCHANGED <<i, out>>
    /\ UNCHANGED <<tree, args, loaded, result>>

Answered(a) == [promptLog EXCEPT ![Len(promptLog)].answer = a]

\* Confirm::prompt() returns Ok(true) or Ok(false).
PromptAnswer_Retry ==
    /\ pc = "prompt"
    /\ \E yes \in BOOLEAN :
          /\ promptLog' = Answered(IF yes THEN "Yes" ELSE "No")
          /\ IF yes
             THEN /\ out' = Collected(out, PackageInstallSpec(package_reqs[i], "Force"))
                  /\ i' = i + 1
             ELSE UNCHANGED <<out, i>>
    /\ pc' = "iter"
    /\ UNCHANGED <<tree, args, loaded, result, queryLog>>

PromptAnswer ==
    /\ pc = "prompt"
    /\ \E yes \in BOOLEAN :
          /\ promptLog' = Answered(IF yes THEN "Yes" ELSE "No")
          /\ out' = IF yes
                    THEN Collected(out, PackageInstallSpec(package_reqs[i], "Force"))
                    ELSE out
    /\ i' = i + 1
    /\ pc' = "iter"
    /\ UNCHANGED <<tree, args, loaded, result, queryLog>>

\* Confirm::prompt().expect("Error prompting for reinstall") on an Err: panic.
PromptError_AsNo ==
    /\ pc = "prompt"
    /\ promptLog' = Answered("Fail")
    /\ i' = i + 1
    /\ pc' = "iter"
    /\ UNCHANGED <<tree, args, loaded, out, result, queryLog>>

PromptError ==
    /\ pc = "prompt"
    /\ promptLog' = Answered("Fail")
    /\ pc' = "done"
    /\ result' = [kind |-> "Panic", specs |-> << >>,
                  error |-> "Error prompting for reinstall"]
    /\ UNCHANGED <<tree, args, loaded, i, out, queryLog>>

\* The iterator is exhausted: Ok(.. .collect())
Return ==
    /\ pc = "iter"
    /\ i > Len(package_reqs)
    /\ pc' = "done"
    /\ result' = [kind |-> "Ok", specs |-> out, error |-> "none"]
    /\ UNCHANGED <<tree, args, loaded, i, out, queryLog, promptLog>>

Next ==
    \/ LockfileOk
    \/ LockfileError
    \/ MatchError
    \/ NextReq
    \/ PromptAnswer
    \/ PromptError
    \/ Return

Spec == Init /\ [][Next]_vars

\* The call is single-threaded and each step is a synchronous call that
\* returns; the prompt blocks until it has an answer or fails.
FairSpec == Spec /\ WF_vars(Next)


\* ------------------------------------------------------- notions of claims
\* The installed identities that match a requirement under the call's pin.
MatchSet(req) == {id \in installed : id.name = req /\ id.pin = pin}

\* The installed identities of a requirement's package, whatever their pin.
Instances(req) == {id \in installed : id.name = req}

\* Input positions whose tree query returned.
Queried == {queryLog[k].idx : k \in {n \in DOMAIN queryLog : queryLog[n].ok}}

\* The prompts issued for input position j.
PromptsFor(j) == {k \in DOMAIN promptLog : promptLog[k].idx = j}

Prompted(j) == PromptsFor(j) # {}

\* Input positions whose prompt was answered no.
Declined == {promptLog[k].idx : k \in {n \in DOMAIN promptLog : promptLog[n].answer = "No"}}

\* Where the specification of input position j sits in the collected list.
OutPos(j) == j - Cardinality({d \in Declined : d < j})

\* Input position j has been processed and its specification carries b.
EmittedWith(j, b) ==
    /\ j < i
    /\ j \notin Declined
    /\ OutPos(j) \in DOMAIN out
    /\ out[OutPos(j)].req = package_reqs[j]
    /\ out[OutPos(j)].build_behaviour = b

\* The input positions below n that were not declined, in input order.
KeptBelow(n) ==
    SelectSeq([k \in 1..(n - 1) |-> k], LAMBDA k : k \notin Declined)

NoFailure ==
    /\ lockfile.loaded
    /\ \A k \in DOMAIN queryLog : queryLog[k].ok
    /\ \A k \in DOMAIN promptLog : promptLog[k].answer # "Fail"

\* ------------------------------------------------------------------ claims
\* C1: with force = false, a requirement with no installed identity matching
\* it under the requested pin is emitted with behaviour Fresh (NoForce), and
\* the prompt is not invoked for it.
C1_NoMatchIsFresh ==
    \A j \in Queried :
        (~force /\ MatchSet(package_reqs[j]) = {})
            => EmittedWith(j, "NoForce") /\ ~Prompted(j)

\* C2: with force = true, the prompt is never invoked, every processed
\* requirement is emitted with behaviour Force in input order, and a call
\* that returns Ok returns one Force specification per input requirement.
C2_ForceAlwaysForce ==
    force =>
        /\ promptLog = << >>
        /\ Len(out) = Cardinality(Queried)
        /\ \A j \in Queried : EmittedWith(j, "Force") /\ OutPos(j) = j
        /\ result.kind = "Ok" =>
              /\ Len(result.specs) = Len(package_reqs)
              /\ \A j \in DOMAIN package_reqs :
                    /\ result.specs[j].req = package_reqs[j]
                    /\ result.specs[j].build_behaviour = "Force"

C2_Witness ==
    /\ force
    /\ result.kind = "Ok"
    /\ Len(package_reqs) = 3
    /\ \E j \in DOMAIN package_reqs :
          \E id \in MatchSet(package_reqs[j]) : id \in entrypoints
    /\ \E j \in DOMAIN package_reqs : MatchSet(package_reqs[j]) = {}
    /\ \E j \in DOMAIN package_reqs : Cardinality(MatchSet(package_reqs[j])) >= 2

\* C3: with force = false, a requirement whose match set is non-empty and
\* holds no entrypoint (one match or many) is emitted with behaviour Force,
\* and the prompt is not invoked for it.
C3_NonEntrypointForces ==
    \A j \in Queried :
        (/\ ~force
         /\ MatchSet(package_reqs[j]) # {}
         /\ \A id \in MatchSet(package_reqs[j]) : id \notin entrypoints)
            => EmittedWith(j, "Force") /\ ~Prompted(j)

C3_Witness ==
    /\ ~force
    /\ result.kind = "Ok"
    /\ \E j \in Queried :
          /\ Cardinality(MatchSet(package_reqs[j])) >= 2
          /\ \A id \in MatchSet(package_reqs[j]) : id \notin entrypoints
          /\ EmittedWith(j, "Force")
    /\ \E k \in Queried : MatchSet(package_reqs[k]) = {}

\* C4: with force = false, a requirement whose match set holds at least one
\* entrypoint is prompted for exactly once; answered yes it is emitted with
\* behaviour Force; answered no it adds nothing to the output, the call goes
\* on to the next requirement and, nothing failing, returns Ok.
C4_EntrypointPrompts ==
    \A j \in Queried :
        (~force /\ \E id \in MatchSet(package_reqs[j]) : id \in entrypoints) =>
            /\ Cardinality(PromptsFor(j)) = 1
            /\ \A k \in PromptsFor(j) :
                  /\ promptLog[k].answer = "Pending" => pc = "prompt" /\ i = j
                  /\ promptLog[k].answer = "Yes" => EmittedWith(j, "Force")
                  /\ promptLog[k].answer = "No" =>
                        /\ j < i
                        /\ Len(out) = (i - 1) - Cardinality(Declined)
                        /\ (\A n \in DOMAIN package_reqs :
                                n # j => package_reqs[n] # package_reqs[j])
                              => \A o \in DOMAIN out : out[o].req # package_reqs[j]
                        /\ (pc = "done" /\ NoFailure) =>
                              /\ result.kind = "Ok"
                              /\ Cardinality(Queried) = Len(package_reqs)

C4_Witness ==
    /\ ~force
    /\ result.kind = "Ok"
    /\ \E j, k \in Queried :
          /\ j < k
          /\ \E id \in MatchSet(package_reqs[j]) : id \in entrypoints
          /\ \E id \in MatchSet(package_reqs[j]) : id \notin entrypoints
          /\ \E id \in MatchSet(package_reqs[k]) : id \in entrypoints
          /\ j \in Declined
          /\ EmittedWith(k, "Force")
          /\ Prompted(k)

\* C5: the collected list is the input list without the declined positions:
\* order is kept, every processed position that was not declined has exactly
\* one specification, its behaviour is NoForce or Force, and nothing else is
\* in the list; a call that returns Ok returns exactly that list.
C5_OutputIsInputMinusDeclined ==
    /\ pc # "prompt" =>
          /\ Len(out) = Len(KeptBelow(i))
          /\ \A o \in DOMAIN out :
                /\ out[o].req = package_reqs[KeptBelow(i)[o]]
                /\ out[o].build_behaviour \in {"NoForce", "Force"}
    /\ result.kind = "Ok" =>
          /\ i = Len(package_reqs) + 1
          /\ result.specs = out

C5_Witness ==
    /\ result.kind = "Ok"
    /\ package_reqs = <<"a", "b", "a">>
    /\ Declined = {1}
    /\ Len(result.specs) = 2
    /\ Prompted(3)

\* C6 as stated: a failing tree query makes the call return the store error
\* as its error result.
C6_MatchErrorReturnsErr ==
    \A k \in DOMAIN queryLog :
        ~queryLog[k].ok =>
            /\ pc = "done"
            /\ result.kind = "Err"
            /\ result.error = "StoreError"

\* C6 amended: a failing tree query aborts the call with the panic "unable to
\* get tree data"; no specification list is returned, and no later
\* requirement is queried or prompted for.
C6_MatchErrorPanics ==
    \A k \in DOMAIN queryLog :
        ~queryLog[k].ok =>
            /\ pc = "done"
            /\ result.kind = "Panic"
            /\ result.error = "unable to get tree data"
            /\ result.specs = << >>
            /\ k = Len(queryLog)
            /\ i = queryLog[k].idx
            /\ \A n \in DOMAIN promptLog : promptLog[n].idx < queryLog[k].idx

C6_Witness ==
    /\ \E k \in DOMAIN queryLog : ~queryLog[k].ok /\ queryLog[k].idx = 2
    /\ Len(package_reqs) = 3
    /\ out # << >>
    /\ result.kind = "Panic"

\* C7 as stated: a failing prompt makes the call return a prompt error as
\* its error result.
C7_PromptErrorReturnsErr ==
    \A k \in DOMAIN promptLog :
        promptLog[k].answer = "Fail" =>
            /\ pc = "done"
            /\ result.kind = "Err"
            /\ result.error = "PromptError"

\* C7 amended: a failing prompt aborts the call with the panic "Error
\* prompting for reinstall"; the prompt is not repeated, the requirement is
\* not passed over as if declined, no later requirement is queried, and no
\* specification list is returned.
C7_PromptErrorPanics ==
    \A k \in DOMAIN promptLog :
        promptLog[k].answer = "Fail" =>
            /\ pc = "done"
            /\ result.kind = "Panic"
            /\ result.error = "Error prompting for reinstall"
            /\ result.specs = << >>
            /\ k = Len(promptLog)
            /\ PromptsFor(promptLog[k].idx) = {k}
            /\ i = promptLog[k].idx
            /\ promptLog[k].idx \notin Declined
            /\ Len(queryLog) = promptLog[k].idx

C7_Witness ==
    /\ \E k \in DOMAIN promptLog : promptLog[k].answer = "Fail" /\ promptLog[k].idx = 2
    /\ Len(package_reqs) = 3
    /\ out # << >>
    /\ result.kind = "Panic"

\* C8: a requirement whose installed instances all have the other pin state
\* is treated as a requirement with no installed instance, entrypoints or
\* not: both are emitted, with the same behaviour, and neither is prompted
\* for; and every specification carries the call's pin.
C8_OtherPinIsNoMatch ==
    /\ \A j \in Queried :
          (Instances(package_reqs[j]) # {} /\ MatchSet(package_reqs[j]) = {}) =>
              /\ ~Prompted(j)
              /\ j < i
              /\ j \notin Declined
              /\ OutPos(j) \in DOMAIN out
              /\ \A k \in Queried :
                    Instances(package_reqs[k]) = {} =>
                        /\ ~Prompted(k)
                        /\ k < i
                        /\ OutPos(k) \in DOMAIN out
                        /\ out[OutPos(k)].build_behaviour
                              = out[OutPos(j)].build_behaviour
    /\ \A o \in DOMAIN out : out[o].pin = pin
    /\ \A o \in DOMAIN result.specs : result.specs[o].pin = pin

C8_Witness ==
    /\ ~force
    /\ result.kind = "Ok"
    /\ \E j, k \in Queried :
          /\ Instances(package_reqs[j]) # {}
          /\ MatchSet(package_reqs[j]) = {}
          /\ \E id \in Instances(package_reqs[j]) : id \in entrypoints
          /\ Instances(package_reqs[k]) = {}
    /\ \A o \in DOMAIN result.specs : result.specs[o].pin = pin
    /\ result.specs # << >>

\* C9: requirements are processed one after another in input order.  The
\* k-th tree query is for input position k; prompts are issued in strictly
\* increasing input position (at most one per position); only the last
\* prompt can be unanswered, and while it is, no later position has been
\* queried; and the call ends.
C9_Order ==
    /\ \A k \in DOMAIN queryLog : queryLog[k].idx = k
    /\ \A k, n \in DOMAIN promptLog : k < n => promptLog[k].idx < promptLog[n].idx
    /\ \A k \in DOMAIN promptLog :
          /\ promptLog[k].idx \in Queried
          /\ promptLog[k].answer = "Pending" =>
                /\ k = Len(promptLog)
                /\ pc = "prompt"
                /\ i = promptLog[k].idx
                /\ Len(queryLog) = promptLog[k].idx
    /\ pc = "prompt" =>
          promptLog # << >> /\ promptLog[Len(promptLog)].answer = "Pending"
    /\ result.kind = "Ok" => Len(queryLog) = Len(package_reqs)

C9_Sequential == [](C9_Order) /\ <>(pc = "done")

C9_Witness ==
    /\ pc = "done"
    /\ result.kind = "Ok"
    /\ Len(promptLog) = 3
    /\ Len(queryLog) = 3

\* C10: the lockfile is read once, before any requirement is looked at.  When
\* the read fails the call returns the store error without a tree query or a
\* prompt, also for an empty list; Ok is returned only after a successful
\* read.
C10_LockfileFirst ==
    /\ pc = "lockfile" => lockfileReads = 0
    /\ pc # "lockfile" => lockfileReads = 1
    /\ (queryLog # << >> \/ promptLog # << >> \/ result.kind \in {"Ok", "Panic"})
          => lockfile.loaded
    /\ (pc # "lockfile" /\ ~lockfile.loaded) =>
          /\ pc = "done"
          /\ result.kind = "Err"
          /\ result.error = "StoreError"
          /\ result.specs = << >>
          /\ queryLog = << >>
          /\ promptLog = << >>

C10_Witness ==
    /\ pc = "done"
    /\ ~lockfile.loaded
    /\ package_reqs = << >>
    /\ result.kind = "Err"

==========================================================================
